---- MODULE Spec2Model ----
(***************************************************************************)
(* A model of gucci.py: the HTTP fetcher get(), the image downloader       *)
(* download(), and the class Gucci (catalog load, pagination walker,       *)
(* normalizer, detail enricher, save, run, download_images).               *)
(*                                                                         *)
(* Strings that the code takes apart (image URLs, file names) are          *)
(* sequences of tokens; the separators "/" and "-" and the extension       *)
(* ".jpg" are tokens of their own, every other token stands for a run of   *)
(* characters holding no separator.  Python dicts whose key order the code *)
(* depends on (the detail response) are sequences of <<key, value>> pairs; *)
(* the catalog and its records are functions from keys to values.          *)
(***************************************************************************)
EXTENDS Integers, Sequences, FiniteSets, TLC

(***************************************************************************)
(* Bounds of the model.                                                    *)
(***************************************************************************)
MaxPages == 2          \* numberOfPages reported by a listing is in 0..MaxPages
MaxRuns == 2           \* invocations of the program in one behaviour
MaxImages == 3         \* image URLs in a list given to deduplicate_images
MaxKeys == 3           \* top-level fields of a detail response
MaxTranslations == 2   \* entries of the translations list of a detail response

(***************************************************************************)
(* Program constants and the configuration the runs are started with.      *)
(***************************************************************************)
image_style == <<"DarkGray_Center_0_0_2400x2400">>
language == "en"
Categories == <<"women", "men">>
\* the category codes get_products is called with: run() passes the configured
\* ones, in order; a caller of the method may pass any other
Requested == Categories \o <<"kids">>
LangCodes == <<"us/en">>
GucciPath == "gucci.json"
AltPath == "alt.json"
Paths == {GucciPath, AltPath}
NoPath == "None"

(***************************************************************************)
(* String helpers: str.split, str.replace, "in", endswith.                 *)
(***************************************************************************)
RECURSIVE SplitFrom(_, _, _, _)
SplitFrom(s, sep, i, cur) ==
    IF i > Len(s) THEN <<cur>>
    ELSE IF s[i] = sep THEN <<cur>> \o SplitFrom(s, sep, i + 1, <<>>)
    ELSE SplitFrom(s, sep, i + 1, Append(cur, s[i]))

split(s, sep) == SplitFrom(s, sep, 1, <<>>)

StartsWithAt(s, i, old) ==
    /\ i + Len(old) - 1 <= Len(s)
    /\ \A k \in 1..Len(old) : s[i + k - 1] = old[k]

RECURSIVE ReplaceFrom(_, _, _, _)
ReplaceFrom(s, old, new, i) ==
    IF i > Len(s) THEN (IF old = <<>> THEN new ELSE <<>>)
    ELSE IF old = <<>> THEN new \o <<s[i]>> \o ReplaceFrom(s, old, new, i + 1)
    ELSE IF StartsWithAt(s, i, old) THEN new \o ReplaceFrom(s, old, new, i + Len(old))
    ELSE <<s[i]>> \o ReplaceFrom(s, old, new, i + 1)

replace(s, old, new) == ReplaceFrom(s, old, new, 1)

Contains(s, tok) == \E i \in 1..Len(s) : s[i] = tok

LastOf(seq) == seq[Len(seq)]

EndsWithJpg(name) == Len(name) > 0 /\ LastOf(name) = ".jpg"

(***************************************************************************)
(* Dict helpers.  A record of the catalog is a function from keys to       *)
(* values; Update is dict.update, Pop is dict.pop(key, None) over a set of *)
(* keys.                                                                   *)
(***************************************************************************)
EmptyDict == [k \in {} |-> ""]

Update(a, b) ==
    [k \in DOMAIN a \cup DOMAIN b |-> IF k \in DOMAIN b THEN b[k] ELSE a[k]]

Pop(a, keys) == [k \in DOMAIN a \ keys |-> a[k]]

(***************************************************************************)
(* Ordered dicts (the detail response, whose key order decides which value *)
(* a renamed key ends with): sequences of <<key, value>> with unique keys. *)
(***************************************************************************)
Keys(d) == {d[i][1] : i \in 1..Len(d)}

Lookup(d, k) == d[CHOOSE i \in 1..Len(d) : d[i][1] = k][2]

SetItem(d, k, v) ==
    IF k \in Keys(d)
    THEN [i \in 1..Len(d) |-> IF d[i][1] = k THEN <<k, v>> ELSE d[i]]
    ELSE Append(d, <<k, v>>)

RECURSIVE UpdateOrd(_, _, _)
UpdateOrd(d, t, i) ==
    IF i > Len(t) THEN d ELSE UpdateOrd(SetItem(d, t[i][1], t[i][2]), t, i + 1)

ToDict(d) == [k \in Keys(d) |-> Lookup(d, k)]

(***************************************************************************)
(* The HTTP exchange behind one requests.get call, and get().              *)
(*   sent: the request got a response (FALSE: requests.get raised, e.g.    *)
(*         ConnectionError);  ok: response.ok;                             *)
(*   json: what response.json() makes of the body.                         *)
(***************************************************************************)
None == [tag |-> "None"]

Raised == [tag |-> "raise"]

get(o) ==
    IF ~o.sent THEN Raised
    ELSE IF ~o.ok THEN None
    ELSE IF o.json = "object" THEN [tag |-> "dict", value |-> o.value]
    ELSE IF o.json = "array" THEN [tag |-> "list", value |-> o.value]
    ELSE None

(***************************************************************************)
(* Product Normalizer: process_url, deduplicate_images, process_images.    *)
(***************************************************************************)
process_url(url) ==
    LET style == split(url, "/")[5]
    IN  <<"https:">> \o replace(url, style, image_style)

\* url.split("/")[4] raises IndexError on a URL of fewer than five segments
process_url_raises(url) == Len(split(url, "/")) < 5

DedupKeyWholeName(image) == LastOf(split(image, "/"))

DedupKey(image) ==
    LET filename == LastOf(split(image, "/"))
    IN  IF Contains(filename, "-")
        THEN split(filename, "-")[1] \o <<".jpg">>
        ELSE filename

RECURSIVE DedupFrom(_, _, _, _)
DedupFrom(images, i, filenames, result) ==
    IF i > Len(images) THEN result
    ELSE IF DedupKey(images[i]) \in filenames
         THEN DedupFrom(images, i + 1, filenames, result)
         ELSE DedupFrom(images, i + 1, filenames \cup {DedupKey(images[i])},
                        result \cup {images[i]})

Orderings(S) ==
    {s \in [1..Cardinality(S) -> S] : \A i, j \in 1..Cardinality(S) : i # j => s[i] # s[j]}

\* list(result) of a set of str: the order is the build's (hash seed), any order
deduplicate_images(images) == Orderings(DedupFrom(images, 1, {}, {}))

CandidateImages(product) ==
    [i \in 1..Len(product["alternateGalleryImages"]) |->
        product["alternateGalleryImages"][i].src]
    \o <<product["primaryImage"].src, product["alternateImage"].src>>

process_images_raises(product) ==
    \E i \in 1..Len(CandidateImages(product)) :
        process_url_raises(CandidateImages(product)[i])

process_images(product) ==
    LET images == CandidateImages(product)
    IN  deduplicate_images([i \in 1..Len(images) |-> process_url(images[i])])

listing_drop_keys ==
    {"showOutOfStockLabel", "showAvailableInStoreOnlyLabel", "videoBackgroundImage",
     "zoomImagePrimary", "zoomImageAlternate", "filterType", "nonTransactionalWebSite",
     "isDiyProduct", "inStockEntry", "inStoreStockEntry", "inStoreStockRegionalEntry",
     "visibleWithoutStock", "showSavedItemIcon", "type", "saleType", "fullPrice",
     "position", "isFavorite", "isOnlineExclusive", "isRegionalOnlineExclusive",
     "regionalOnlineExclusiveMsg", "isExclusiveSale", "label", "imgBase", "productName",
     "primaryImage", "alternateImage", "alternateGalleryImages"}

(***************************************************************************)
(* Product Detail Enricher: get_product_details, on the result of get().   *)
(***************************************************************************)
DetailDropKeysShort ==
    {"assortments", "availability", "categories", "variants", "project",
     "prices", "lastUpdated", "exotic", "genders", "materialCare", "styleCode",
     "language", "madeIn", "translations"}

detail_drop_keys ==
    {"assortments", "availability", "categories", "status", "variants", "project",
     "prices", "lastUpdated", "exotic", "genders", "materialCare", "styleCode",
     "language", "madeIn", "translations"}

rename_keys ==
    {"editorialDescription", "variationDescription", "departmentDescription",
     "subDepartmentDescription", "seasonDescription", "detailParts"}

rename(k) ==
    CASE k = "editorialDescription" -> "editorial"
      [] k = "variationDescription" -> "variation"
      [] k = "departmentDescription" -> "department"
      [] k = "subDepartmentDescription" -> "subDepartment"
      [] k = "seasonDescription" -> "season"
      [] k = "detailParts" -> "details"
      [] OTHER -> k

MergeTranslationsNone(data, translations, lang, i) == data

RECURSIVE MergeTranslations(_, _, _, _)
MergeTranslations(data, translations, lang, i) ==
    IF i > Len(translations) THEN data
    ELSE LET t == translations[i]
             tl == IF "language" \in Keys(t) THEN Lookup(t, "language") ELSE ""
         IN  MergeTranslations(IF tl = lang THEN UpdateOrd(data, t, 1) ELSE data,
                               translations, lang, i + 1)

RECURSIVE DropAndRename(_, _, _)
DropAndRename(data, i, out) ==
    IF i > Len(data) THEN out
    ELSE IF data[i][1] \in detail_drop_keys THEN DropAndRename(data, i + 1, out)
    ELSE DropAndRename(data, i + 1, SetItem(out, rename(data[i][1]), data[i][2]))

\* the mapping get_product_details returns, for a detail response that is a dict
enrich(data, lang) ==
    LET translations ==
            IF "translations" \in Keys(data) THEN Lookup(data, "translations") ELSE <<>>
        merged == MergeTranslations(data, translations, lang, 1)
        renamed == ToDict(DropAndRename(merged, 1, <<>>))
    IN  Pop(renamed, rename_keys)

\* data.get on a list raises AttributeError; a raise inside get() propagates
get_product_details_raises(r) == r.tag \in {"raise", "list"}

get_product_details(r, lang) ==
    IF r.tag = "None" THEN EmptyDict ELSE enrich(r.value, lang)

(***************************************************************************)
(* What the external API can answer.  Listing items are raw product        *)
(* records; Item1 and Item1b carry the same productCode with different     *)
(* fields.                                                                 *)
(***************************************************************************)
UrlA1 == <<"/", "/", "host", "/", "media", "/", "Style1", "/", "large", "/", "A", "-", "1", ".jpg">>
UrlA2 == <<"/", "/", "host", "/", "media", "/", "Style2", "/", "large", "/", "A", "-", "2", ".jpg">>
UrlB == <<"/", "/", "host", "/", "media", "/", "Style1", "/", "large", "/", "B", ".jpg">>
UrlC == <<"/", "/", "host", "/", "media", "/", "Style1", "/", "large", "/", "C", ".png">>

RawItem(code, title, gallery, primary, alternate) ==
    [k \in {"productCode", "title", "label", "primaryImage", "alternateImage",
            "alternateGalleryImages"} |->
        CASE k = "productCode" -> code
          [] k = "title" -> title
          [] k = "label" -> "new"
          [] k = "primaryImage" -> [src |-> primary]
          [] k = "alternateImage" -> [src |-> alternate]
          [] OTHER -> [i \in 1..Len(gallery) |-> [src |-> gallery[i]]]]

Item1 == RawItem("p1", "t1", <<UrlB>>, UrlA1, UrlA2)
Item1b == RawItem("p1", "t2", <<>>, UrlC, UrlC)
Item2 == RawItem("p2", "t3", <<>>, UrlB, UrlB)

ItemLists == {<<>>, <<Item1>>, <<Item2>>, <<Item1, Item1b>>, <<Item1b, Item2>>}

ListingBodies == {[numberOfPages |-> n, items |-> its] : n \in 0..MaxPages, its \in ItemLists}

NoListing == [numberOfPages |-> 0, items |-> <<>>]

\* the exchanges that end without a usable document, with a filler value v
Failures(v) ==
    {[sent |-> FALSE, ok |-> FALSE, json |-> "invalid", value |-> v],
     [sent |-> TRUE, ok |-> FALSE, json |-> "invalid", value |-> v],
     [sent |-> TRUE, ok |-> TRUE, json |-> "invalid", value |-> v],
     [sent |-> TRUE, ok |-> TRUE, json |-> "scalar", value |-> v],
     [sent |-> TRUE, ok |-> TRUE, json |-> "array", value |-> v]}

ListingOutcomes ==
    Failures(NoListing)
    \cup {[sent |-> TRUE, ok |-> TRUE, json |-> "object", value |-> b] : b \in ListingBodies}

Detail1 ==
    << <<"editorialDescription", "A">>, <<"status", "live">>,
       <<"translations",
         << << <<"language", "en">>, <<"editorialDescription", "B">> >>,
            << <<"language", "fr">>, <<"editorialDescription", "C">> >> >> >> >>

DetailOutcomes ==
    Failures(<<>>)
    \cup {[sent |-> TRUE, ok |-> TRUE, json |-> "object", value |-> b] : b \in {Detail1}}

\* what a deterministic API is taken to answer: an HTTP error or a document
HttpError(v) == [sent |-> TRUE, ok |-> FALSE, json |-> "invalid", value |-> v]

Document(b) == [sent |-> TRUE, ok |-> TRUE, json |-> "object", value |-> b]

FixedListingOutcomes ==
    {HttpError(NoListing)}
    \cup {Document([numberOfPages |-> n, items |-> its]) :
            n \in {1, 2}, its \in {<<>>, <<Item1>>, <<Item1b, Item2>>}}

FixedDetailOutcomes == {HttpError(<<>>), Document(Detail1)}

(***************************************************************************)
(* The catalog file.  json.dump writes the mapping as an object, one       *)
(* member per key; json.load reads it back.  A file that open(path, "w")   *)
(* has truncated and json.dump has not finished is not a JSON document.    *)
(***************************************************************************)
Dump(prods) == {<<k, prods[k]>> : k \in DOMAIN prods}

Load(doc) == [k \in {m[1] : m \in doc} |-> (CHOOSE m \in doc : m[1] = k)[2]]

Absent == [kind |-> "absent", doc |-> {}]

Partial == [kind |-> "partial", doc |-> {}]

JsonFile(prods) == [kind |-> "json", doc |-> Dump(prods)]

NoProducts == [k \in {} |-> EmptyDict]

(***************************************************************************)
(* State.                                                                  *)
(*   Program:     pc, cfg, products, initial_count, li, ci, page,          *)
(*                number_of_pages, todo, cur, idx                          *)
(*   Environment: files (catalog files), disk (image files), dirs,         *)
(*                api (answers a pinned API has already given), pinned     *)
(*   History:     runs, prev, filesAtStart, walkLog, lastGet, saveFailed,  *)
(*                reported, img_requests, dl, check                        *)
(*   Calls:       call (a function of the program called on its own, with  *)
(*                its argument), out (what the call returned)              *)
(***************************************************************************)
VARIABLES pc, cfg, products, initial_count, li, ci, page, number_of_pages,
          todo, cur, idx, files, disk, dirs, api, pinned,
          runs, prev, filesAtStart, walkLog, lastGet, saveFailed, reported,
          img_requests, dl, check, call, out

vars == <<pc, cfg, products, initial_count, li, ci, page, number_of_pages,
          todo, cur, idx, files, disk, dirs, api, pinned,
          runs, prev, filesAtStart, walkLog, lastGet, saveFailed, reported,
          img_requests, dl, check, call, out>>

progVars == <<products, initial_count, li, ci, page, number_of_pages, todo, cur, idx>>
walkVars == <<li, ci, page, number_of_pages>>
imgVars == <<todo, cur, idx, disk, dirs, img_requests, dl, check>>
callVars == <<call, out>>

Running == {"walk", "walked", "save", "write", "images", "downloading"}
Ended == {"done", "error", "killed"}

Configs ==
    [save_path : {NoPath, GucciPath, AltPath},
     product_details : BOOLEAN,
     download_images : BOOLEAN]

NoGet == [sent |-> TRUE, ok |-> TRUE, json |-> "none", tag |-> "none"]

NoDl == [called |-> FALSE, existed |-> FALSE, failed |-> FALSE,
         dir |-> "", name |-> <<>>]

\* the count check of the last product download_images took up: the files its
\* directory held, those of them matching *.jpg, the images listed, and the
\* requests made for it since
NoCheck == [called |-> FALSE, files |-> 0, jpgs |-> 0, n |-> 0, requests |-> 0]

\* a catalog an earlier crawl of this API has persisted
Record1 ==
    [productCode |-> "p1", title |-> "t1",
     images |-> <<process_url(UrlB), process_url(UrlA1)>>]

\* the record a crawl stores for Item1b
Record1b ==
    [productCode |-> "p1", title |-> "t2", images |-> <<process_url(UrlC)>>]

InitialCatalogs == {Absent, JsonFile([k \in {"p1"} |-> Record1])}

\* catalogs an image-download invocation is started on
DownloadCatalogs ==
    InitialCatalogs \cup {JsonFile([k \in {"p1"} |-> Record1b])}

\* the image files found at the first invocation: none, or those that passes
\* over an earlier catalog of the same directory have left for product p1
EmptyDisk == [f \in {} |-> "full"]

StaleMixed ==
    [f \in {<<"p1", <<"C", ".png">>>>, <<"p1", <<"B", ".jpg">>>>} |-> "full"]

StaleJpg ==
    [f \in {<<"p1", <<"A", "-", "2", ".jpg">>>>, <<"p1", <<"B", ".jpg">>>>} |-> "full"]

InitialDisks == {EmptyDisk, StaleMixed, StaleJpg}

NoCall == [fn |-> "none", arg |-> <<>>]

NoOut == [done |-> FALSE, raised |-> FALSE, value |-> <<>>]

InitProgram(fixed) ==
    /\ pc = "idle"
    /\ cfg \in {c \in Configs : fixed => ~c.download_images}
    /\ products = NoProducts
    /\ initial_count = 0
    /\ li = 1 /\ ci = 1 /\ page = 0 /\ number_of_pages = 1
    /\ todo = {} /\ cur = "" /\ idx = 1
    /\ \E c \in (IF cfg.download_images THEN DownloadCatalogs ELSE InitialCatalogs) :
           files = [p \in Paths |-> IF p = GucciPath THEN c ELSE Absent]
    /\ disk \in (IF cfg.download_images THEN InitialDisks ELSE {EmptyDisk})
    /\ dirs = {f[1] : f \in DOMAIN disk}
    /\ api = [listing |-> [u \in {} |-> NoGet], detail |-> [u \in {} |-> NoGet]]
    /\ pinned = fixed
    /\ runs = 0
    /\ prev = [ok |-> FALSE, cfg |-> cfg, products |-> NoProducts]
    /\ filesAtStart = files
    /\ walkLog = <<>>
    /\ lastGet = NoGet
    /\ saveFailed = FALSE
    /\ reported = FALSE
    /\ img_requests = 0
    /\ dl = NoDl
    /\ check = NoCheck

InitWith(fixed) ==
    /\ InitProgram(fixed)
    /\ call = NoCall
    /\ out = NoOut

Init == InitWith(FALSE)

InitFixed == InitWith(TRUE)

\* a process that has died (an uncaught exception, a kill) has no memory left
Dead ==
    /\ products' = NoProducts
    /\ initial_count' = 0
    /\ li' = 1 /\ ci' = 1 /\ page' = 0 /\ number_of_pages' = 1
    /\ todo' = {} /\ cur' = "" /\ idx' = 1
    /\ walkLog' = <<>>

(***************************************************************************)
(* Program start: run() of the command line builds Gucci(...) and          *)
(* dispatches on download_images.  Gucci.__init__ loads the catalog.       *)
(* Every invocation of one behaviour is given the same command line, cfg.  *)
(***************************************************************************)
LoadRaises(file) == file.kind = "partial"

LoadCatalogSkipped(file) == NoProducts

LoadCatalog(file) == IF file.kind = "json" THEN Load(file.doc) ELSE NoProducts

DispatchCrawlAlways(download_images) == "walk"

\* run() of the command line: gucci.download_images() or gucci.run(...)
Dispatch(download_images) == IF download_images THEN "images" ELSE "walk"

Start ==
    /\ UNCHANGED callVars
    /\ pc \in {"idle"} \cup Ended
    /\ runs < MaxRuns
    /\ runs' = runs + 1
    /\ prev' = [ok |-> pc = "done", cfg |-> cfg, products |-> products]
    /\ filesAtStart' = files
    /\ walkLog' = <<>>
    /\ lastGet' = NoGet
    /\ saveFailed' = FALSE
    /\ reported' = FALSE
    /\ img_requests' = 0
    /\ dl' = NoDl
    /\ check' = NoCheck
    /\ li' = 1 /\ ci' = 1 /\ page' = 0 /\ number_of_pages' = 1
    /\ cur' = "" /\ idx' = 1
    /\ IF LoadRaises(files[GucciPath])
       THEN /\ products' = NoProducts
            /\ initial_count' = 0
            /\ todo' = {}
            /\ pc' = "error"
       ELSE /\ products' = LoadCatalog(files[GucciPath])
            /\ initial_count' = Cardinality(DOMAIN products')
            /\ pc' = Dispatch(cfg.download_images)
            /\ todo' = IF pc' = "images" THEN DOMAIN products' ELSE {}
    /\ UNCHANGED <<cfg, files, disk, dirs, api, pinned>>

(***************************************************************************)
(* The API as the program meets it: a pinned API repeats the answer it     *)
(* gave for a URL, an unpinned one may answer anything each time.          *)
(***************************************************************************)
Answers(known, url, pool, fixedPool) ==
    IF url \in DOMAIN known THEN {known[url]}
    ELSE IF pinned THEN fixedPool
    ELSE pool

Pin(known, url, o) ==
    IF pinned
    THEN [u \in DOMAIN known \cup {url} |-> IF u = url THEN o ELSE known[u]]
    ELSE known

(***************************************************************************)
(* Pagination Walker: Gucci.get_products.                                  *)
(***************************************************************************)
LoopCondOffByOne(p, n) == p <= n

LoopCond(p, n) == p < n

AlreadyProcessedNever(code, prods) == FALSE

AlreadyProcessed(code, prods) == code \in DOMAIN prods

EmptyPageIgnored(count) == FALSE

EmptyPage(count) == count = 0

OnAbsentRaise == "error"

\* what the walker does on data is None: break
OnAbsent == "walked"

Insert(prods, code, rec) ==
    [k \in DOMAIN prods \cup {code} |-> IF k = code THEN rec ELSE prods[k]]

Normalized(product, imgs) == Pop(Update(product, [images |-> imgs]), listing_drop_keys)

\* the for loop over products["items"]: every way it can end, with the store
\* it leaves and the detail answers met
RECURSIVE ProcessItems(_, _, _, _, _)
ProcessItems(items, i, prods, known, details) ==
    IF i > Len(items) THEN {[raised |-> FALSE, products |-> prods, detail |-> known]}
    ELSE LET product == items[i]
             code == product["productCode"]
         IN  IF AlreadyProcessed(code, prods)
             THEN ProcessItems(items, i + 1, prods, known, details)
             ELSE IF process_images_raises(product)
             THEN {[raised |-> TRUE, products |-> prods, detail |-> known]}
             ELSE UNION {
                 IF ~details
                 THEN ProcessItems(items, i + 1,
                                   Insert(prods, code, Normalized(product, imgs)),
                                   known, details)
                 ELSE UNION {
                     IF get_product_details_raises(get(o))
                     THEN {[raised |-> TRUE, products |-> prods,
                            detail |-> Pin(known, code, o)]}
                     ELSE ProcessItems(items, i + 1,
                              Insert(prods, code,
                                     Update(Normalized(product, imgs),
                                            get_product_details(get(o), language))),
                              Pin(known, code, o), details)
                     : o \in Answers(known, code, DetailOutcomes, FixedDetailOutcomes)}
                 : imgs \in process_images(product)}

CategoryAllowedAlways(category_code) == TRUE

\* category_code in self.categories
CategoryAllowed(category_code) ==
    \E i \in 1..Len(Categories) : Categories[i] = category_code

\* the category_code argument of the call in progress
CategoryCode == Requested[ci]

\* history: the page held an item whose code the store had under another title
MetStored(items, prods) ==
    \E i \in 1..Len(items) :
        /\ items[i]["productCode"] \in DOMAIN prods
        /\ prods[items[i]["productCode"]]["title"] # items[i]["title"]

ListingUrl == <<LangCodes[li], CategoryCode, page>>

\* get_products called with a category that is not configured: return
SkipCategory ==
    /\ UNCHANGED callVars
    /\ pc = "walk"
    /\ ~CategoryAllowed(CategoryCode)
    /\ pc' = "walked"
    /\ UNCHANGED <<cfg, progVars, files, api, pinned, runs, prev, filesAtStart, walkLog,
                   lastGet, saveFailed, reported, disk, dirs, img_requests, dl, check>>

FetchPage(o) ==
    /\ UNCHANGED callVars
    /\ pc = "walk"
    /\ CategoryAllowed(CategoryCode)
    /\ LoopCond(page, number_of_pages)
    /\ o \in Answers(api.listing, ListingUrl, ListingOutcomes, FixedListingOutcomes)
    /\ LET r == get(o)
           n == IF r.tag = "dict" THEN r.value.numberOfPages ELSE 0
           count == IF r.tag = "dict" THEN Len(r.value.items) ELSE 0
       IN  /\ lastGet' = [sent |-> o.sent, ok |-> o.ok, json |-> o.json, tag |-> r.tag]
           /\ IF r.tag \in {"raise", "list"}
              THEN \* requests.get raised, or data["numberOfPages"] on a list: TypeError
                   /\ pc' = "error"
                   /\ api' = [api EXCEPT !.listing = Pin(@, ListingUrl, o)]
                   /\ Dead
              ELSE IF r.tag = "None"
              THEN /\ pc' = OnAbsent
                   /\ walkLog' = Append(walkLog, [page |-> page, got |-> "absent", n |-> 0,
                                                  met |-> FALSE])
                   /\ api' = [api EXCEPT !.listing = Pin(@, ListingUrl, o)]
                   /\ UNCHANGED <<products, initial_count, li, ci, page, number_of_pages,
                                  todo, cur, idx>>
              ELSE IF EmptyPage(count)
              THEN /\ pc' = "walked"
                   /\ walkLog' = Append(walkLog, [page |-> page, got |-> "empty", n |-> n,
                                                  met |-> FALSE])
                   /\ number_of_pages' = n
                   /\ api' = [api EXCEPT !.listing = Pin(@, ListingUrl, o)]
                   /\ UNCHANGED <<products, initial_count, li, ci, page, todo, cur, idx>>
              ELSE \E res \in ProcessItems(r.value.items, 1, products, api.detail,
                                           cfg.product_details) :
                   /\ api' = [listing |-> Pin(api.listing, ListingUrl, o),
                              detail |-> res.detail]
                   /\ IF res.raised
                      THEN pc' = "error" /\ Dead
                      ELSE /\ products' = res.products
                           /\ walkLog' = Append(walkLog,
                                  [page |-> page, n |-> n,
                                   got |-> IF count = 0 THEN "empty" ELSE "items",
                                   met |-> MetStored(r.value.items, products)])
                           /\ number_of_pages' = n
                           /\ page' = page + 1
                           /\ pc' = IF LoopCond(page + 1, n) THEN "walk" ELSE "walked"
                           /\ UNCHANGED <<initial_count, li, ci, todo, cur, idx>>
    /\ UNCHANGED <<cfg, files, pinned, runs, prev, filesAtStart, saveFailed, reported>>
    /\ UNCHANGED <<disk, dirs, img_requests, dl, check>>

\* run(): the next category, the next language, or the save
NextCategory ==
    /\ UNCHANGED callVars
    /\ pc = "walked"
    /\ IF ci < Len(Categories)
       THEN ci' = ci + 1 /\ li' = li /\ pc' = "walk"
       ELSE IF li < Len(LangCodes)
       THEN ci' = 1 /\ li' = li + 1 /\ pc' = "walk"
       ELSE ci' = ci /\ li' = li /\ pc' = "save"
    /\ page' = 0
    /\ number_of_pages' = 1
    /\ walkLog' = <<>>
    /\ lastGet' = NoGet
    /\ UNCHANGED <<cfg, products, initial_count, files, api, pinned, runs, prev,
                   filesAtStart, saveFailed, reported>>
    /\ UNCHANGED imgVars

\* a caller of the method: get_products for each requested category, then save
CallNext ==
    /\ UNCHANGED callVars
    /\ pc = "walked"
    /\ IF ci < Len(Requested)
       THEN ci' = ci + 1 /\ pc' = "walk"
       ELSE ci' = ci /\ pc' = "save"
    /\ li' = li
    /\ page' = 0
    /\ number_of_pages' = 1
    /\ walkLog' = <<>>
    /\ lastGet' = NoGet
    /\ UNCHANGED <<cfg, products, initial_count, files, api, pinned, runs, prev,
                   filesAtStart, saveFailed, reported>>
    /\ UNCHANGED imgVars

(***************************************************************************)
(* Gucci.save: open(path, "w") truncates the file, json.dump fills it, the *)
(* counts are logged after the file is closed.                             *)
(***************************************************************************)
SavePath == IF cfg.save_path = NoPath THEN GucciPath ELSE cfg.save_path

OnSaveErrorSwallowed == "done"

\* where a failure inside save leaves the run: the exception propagates
OnSaveError == "error"

SaveOpen(can_open) ==
    /\ UNCHANGED callVars
    /\ pc = "save"
    /\ IF can_open
       THEN /\ files' = [files EXCEPT ![SavePath] = Partial]
            /\ pc' = "write"
            /\ UNCHANGED <<saveFailed, reported>>
       ELSE /\ saveFailed' = TRUE
            /\ pc' = OnSaveError
            /\ reported' = (pc' = "done")
            /\ UNCHANGED files
    /\ IF pc' = "error" THEN Dead ELSE UNCHANGED <<progVars, walkLog>>
    /\ UNCHANGED <<cfg, api, pinned, runs, prev, filesAtStart, lastGet>>
    /\ UNCHANGED <<disk, dirs, img_requests, dl, check>>

SaveDump(written) ==
    /\ UNCHANGED callVars
    /\ pc = "write"
    /\ IF written
       THEN /\ files' = [files EXCEPT ![SavePath] = JsonFile(products)]
            /\ pc' = "done"
            /\ reported' = TRUE
            /\ UNCHANGED saveFailed
       ELSE /\ saveFailed' = TRUE
            /\ pc' = OnSaveError
            /\ reported' = (pc' = "done")
            /\ UNCHANGED files
    /\ IF pc' = "error" THEN Dead ELSE UNCHANGED <<progVars, walkLog>>
    /\ UNCHANGED <<cfg, api, pinned, runs, prev, filesAtStart, lastGet>>
    /\ UNCHANGED <<disk, dirs, img_requests, dl, check>>

\* the process is terminated from outside, wherever it is
Kill ==
    /\ UNCHANGED callVars
    /\ pc \in Running
    /\ pc' = "killed"
    /\ Dead
    /\ lastGet' = NoGet
    /\ dl' = NoDl
    /\ check' = NoCheck
    /\ UNCHANGED <<cfg, files, api, pinned, runs, prev, filesAtStart,
                   saveFailed, reported>>
    /\ UNCHANGED <<disk, dirs, img_requests>>

(***************************************************************************)
(* Image Downloader: download(url, path) and Gucci.download_images.        *)
(* An image file is <<directory, file name>>; its content is "full" or,    *)
(* when the stream broke after open(path, "wb"), "partial".                *)
(***************************************************************************)
ImageOutcomes ==
    {[sent |-> FALSE, ok |-> FALSE, stream |-> "broken"],
     [sent |-> TRUE, ok |-> FALSE, stream |-> "broken"],
     [sent |-> TRUE, ok |-> TRUE, stream |-> "broken"],
     [sent |-> TRUE, ok |-> TRUE, stream |-> "complete"]}

ExistsUnchecked(path, d) == FALSE

Exists(path, d) == path \in DOMAIN d

Put(d, path, content) ==
    [f \in DOMAIN d \cup {path} |-> IF f = path THEN content ELSE d[f]]

download(d, url, path, o) ==
    IF Exists(path, d) THEN [disk |-> d, requested |-> FALSE, raised |-> FALSE]
    ELSE IF ~o.sent THEN [disk |-> d, requested |-> TRUE, raised |-> TRUE]
    ELSE IF ~o.ok THEN [disk |-> d, requested |-> TRUE, raised |-> FALSE]
    ELSE IF o.stream = "complete"
         THEN [disk |-> Put(d, path, "full"), requested |-> TRUE, raised |-> FALSE]
         ELSE [disk |-> Put(d, path, "partial"), requested |-> TRUE, raised |-> TRUE]

\* len(list(product_dir.glob("*.jpg")))
GlobJpg(d, dir) == Cardinality({f \in DOMAIN d : f[1] = dir /\ EndsWithJpg(f[2])})

\* history: the files of every name in the directory
FileCount(d, dir) == Cardinality({f \in DOMAIN d : f[1] = dir})

AlreadyDownloadedNever(d, dir, n) == FALSE

\* the count check that skips a product
AlreadyDownloaded(d, dir, n) == GlobJpg(d, dir) = n

ImagePath(prods, k, i) ==
    <<prods[k]["productCode"], LastOf(split(prods[k]["images"][i], "/"))>>

\* one turn of the for loop over products.items(), up to the count check
BeginProduct(k) ==
    /\ UNCHANGED callVars
    /\ pc = "images"
    /\ k \in todo
    /\ dirs' = dirs \cup {products[k]["productCode"]}
    /\ check' = [called |-> TRUE,
                  files |-> FileCount(disk, products[k]["productCode"]),
                  jpgs |-> GlobJpg(disk, products[k]["productCode"]),
                  n |-> Len(products[k]["images"]),
                  requests |-> 0]
    /\ IF AlreadyDownloaded(disk, products[k]["productCode"], Len(products[k]["images"]))
       THEN /\ todo' = todo \ {k}
            /\ UNCHANGED <<pc, cur, idx>>
       ELSE /\ cur' = k
            /\ idx' = 1
            /\ pc' = "downloading"
            /\ UNCHANGED todo
    /\ UNCHANGED <<cfg, products, initial_count, walkVars, files, disk, api, pinned, runs,
                   prev, filesAtStart, walkLog, lastGet, saveFailed, reported,
                   img_requests, dl>>

\* one turn of the for loop over the images: download(image, image_path)
DownloadImage(o) ==
    /\ UNCHANGED callVars
    /\ pc = "downloading"
    /\ idx <= Len(products[cur]["images"])
    /\ LET path == ImagePath(products, cur, idx)
           res == download(disk, products[cur]["images"][idx], path, o)
       IN  /\ disk' = res.disk
           /\ img_requests' = img_requests + (IF res.requested THEN 1 ELSE 0)
           /\ check' = [check EXCEPT !.requests = @ + (IF res.requested THEN 1 ELSE 0)]
           /\ dl' = [called |-> TRUE, existed |-> ~res.requested,
                     failed |-> res.requested /\ ~(o.sent /\ o.ok /\ o.stream = "complete"),
                     dir |-> path[1], name |-> path[2]]
           /\ IF res.raised
              THEN pc' = "error" /\ Dead
              ELSE /\ IF idx < Len(products[cur]["images"])
                      THEN idx' = idx + 1 /\ UNCHANGED <<pc, todo>>
                      ELSE idx' = 1 /\ todo' = todo \ {cur} /\ pc' = "images"
                   /\ UNCHANGED <<products, initial_count, walkVars, cur, walkLog>>
    /\ UNCHANGED <<cfg, files, dirs, api, pinned, runs, prev, filesAtStart,
                   lastGet, saveFailed, reported>>

\* download_images returns; the program ends
FinishImages ==
    /\ UNCHANGED callVars
    /\ pc = "images"
    /\ todo = {}
    /\ pc' = "done"
    /\ UNCHANGED <<cfg, progVars, files, api, pinned, runs, prev, filesAtStart, walkLog,
                   lastGet, saveFailed, reported, disk, dirs, img_requests, dl, check>>

(***************************************************************************)
(* The functions of the Normalizer and the Enricher called on their own,   *)
(* and the body of the item loop on a single listing item: the arguments   *)
(* they are called with, and the calls.                                    *)
(***************************************************************************)
SeqsUpTo(S, n) == UNION {[1..m -> S] : m \in 0..n}

UrlOf(scheme, style, file) ==
    scheme \o <<"/", "/", "host", "/", "media", "/">> \o style
           \o <<"/", "large", "/">> \o file

\* scheme-relative and absolute URLs, a style that is also a later segment,
\* and a URL of fewer than five segments
UrlInputs ==
    {UrlOf(scheme, style, file) :
        scheme \in {<<>>, <<"https:">>},
        style \in {<<"Style1">>, <<"large">>},
        file \in {<<"B", ".jpg">>, <<"A", "-", "1", ".jpg">>}}
    \cup {<<"/", "/", "host", "/", "B", ".jpg">>}

UrlB1 == UrlOf(<<>>, <<"Style2">>, <<"B", "-", "1", ".jpg">>)

ImageInputs == {process_url(u) : u \in {UrlA1, UrlA2, UrlB, UrlB1, UrlC}}

ImageLists == SeqsUpTo(ImageInputs, MaxImages)

TopPairs ==
    {<<"editorialDescription", "A">>, <<"editorial", "X">>, <<"status", "live">>,
     <<"detailParts", "P">>}

TopLevels ==
    {d \in SeqsUpTo(TopPairs, MaxKeys) : \A i, j \in 1..Len(d) : i # j => d[i] # d[j]}

TranslationEntries ==
    {<< <<"language", "en">>, <<"editorialDescription", "B">> >>,
     << <<"language", "en">>, <<"editorialDescription", "B2">>, <<"detailParts", "Q">> >>,
     << <<"language", "fr">>, <<"editorialDescription", "C">> >>,
     << <<"editorialDescription", "D">> >>,
     << <<"language", "en">>, <<"editorial", "Y">>, <<"status", "sold">> >>}

TranslationLists == SeqsUpTo(TranslationEntries, MaxTranslations)

DetailBodies ==
    TopLevels
    \cup {Append(d, <<"translations", t>>) : d \in TopLevels, t \in TranslationLists}

DetailInputs == Failures(<<>>) \cup {Document(b) : b \in DetailBodies}

\* detail responses that carry fields of the listing record
DetailWithCode == << <<"productCode", "p9">>, <<"editorialDescription", "A">> >>

DetailWithImages == << <<"images", <<>>>>, <<"editorialDescription", "A">> >>

DetailWithLabel == << <<"label", "sale">>, <<"editorialDescription", "A">> >>

InsertDetails ==
    Failures(<<>>)
    \cup {Document(b) : b \in {Detail1, DetailWithCode, DetailWithImages, DetailWithLabel}}

InitPure ==
    /\ InitProgram(FALSE)
    /\ cfg = [save_path |-> NoPath, product_details |-> TRUE, download_images |-> FALSE]
    /\ files = [p \in Paths |-> Absent]
    /\ out = NoOut
    /\ \/ \E u \in UrlInputs : call = [fn |-> "process_url", arg |-> u]
       \/ \E l \in ImageLists : call = [fn |-> "deduplicate_images", arg |-> l]
       \/ \E o \in DetailInputs : call = [fn |-> "get_product_details", arg |-> o]
       \/ \E it \in {Item1, Item1b, Item2}, d \in BOOLEAN, o \in InsertDetails :
              call = [fn |-> "insert", arg |-> [item |-> it, details |-> d, detail |-> o]]

Returned(v) == [done |-> TRUE, raised |-> FALSE, value |-> v]

RaisedOut == [done |-> TRUE, raised |-> TRUE, value |-> <<>>]

CallProcessUrl ==
    /\ call.fn = "process_url"
    /\ ~out.done
    /\ out' = IF process_url_raises(call.arg) THEN RaisedOut
              ELSE Returned(process_url(call.arg))
    /\ UNCHANGED <<pc, cfg, progVars, files, api, pinned, runs, prev, filesAtStart, walkLog,
                   lastGet, saveFailed, reported, disk, dirs, img_requests, dl, check, call>>

CallDeduplicateImages ==
    /\ call.fn = "deduplicate_images"
    /\ ~out.done
    /\ \E v \in deduplicate_images(call.arg) : out' = Returned(v)
    /\ UNCHANGED <<pc, cfg, progVars, files, api, pinned, runs, prev, filesAtStart, walkLog,
                   lastGet, saveFailed, reported, disk, dirs, img_requests, dl, check, call>>

CallGetProductDetails ==
    /\ call.fn = "get_product_details"
    /\ ~out.done
    /\ out' = IF get_product_details_raises(get(call.arg)) THEN RaisedOut
              ELSE Returned(get_product_details(get(call.arg), language))
    /\ UNCHANGED <<pc, cfg, progVars, files, api, pinned, runs, prev, filesAtStart, walkLog,
                   lastGet, saveFailed, reported, disk, dirs, img_requests, dl, check, call>>

\* the item loop of get_products on one item and an empty store, the detail
\* endpoint answering call.arg.detail
CallInsert ==
    /\ call.fn = "insert"
    /\ ~out.done
    /\ \E res \in ProcessItems(<<call.arg.item>>, 1, NoProducts,
                               [c \in {call.arg.item["productCode"]} |-> call.arg.detail],
                               call.arg.details) :
           out' = IF res.raised THEN RaisedOut ELSE Returned(res.products)
    /\ UNCHANGED <<pc, cfg, progVars, files, api, pinned, runs, prev, filesAtStart, walkLog,
                   lastGet, saveFailed, reported, disk, dirs, img_requests, dl, check, call>>

(***************************************************************************)
(* Specifications.  Spec: the API may answer anything each time.           *)
(* SpecFixed: the API is deterministic, a URL always gets the same answer. *)
(***************************************************************************)
Next ==
    \/ Start
    \/ \E o \in ListingOutcomes : FetchPage(o)
    \/ NextCategory
    \/ \E b \in BOOLEAN : SaveOpen(b)
    \/ \E b \in BOOLEAN : SaveDump(b)
    \/ Kill
    \/ \E k \in {"p1", "p2"} : BeginProduct(k)
    \/ \E o \in ImageOutcomes : DownloadImage(o)
    \/ FinishImages

Spec == Init /\ [][Next]_vars

\* crawl runs that are left to complete, against a deterministic API
NextFixed ==
    \/ Start
    \/ \E o \in ListingOutcomes : FetchPage(o)
    \/ NextCategory
    \/ \E b \in BOOLEAN : SaveOpen(b)
    \/ \E b \in BOOLEAN : SaveDump(b)

SpecFixed == InitFixed /\ [][NextFixed]_vars

\* crawls in which get_products is called with every category of Requested
InitCall == Init /\ ~cfg.download_images

NextCall ==
    \/ Start
    \/ \E o \in ListingOutcomes : FetchPage(o)
    \/ SkipCategory
    \/ CallNext
    \/ \E b \in BOOLEAN : SaveOpen(b)
    \/ \E b \in BOOLEAN : SaveDump(b)

SpecCall == InitCall /\ [][NextCall]_vars

\* the functions called on their own, on every argument of the pools
NextPure ==
    \/ CallProcessUrl
    \/ CallDeduplicateImages
    \/ CallGetProductDetails
    \/ CallInsert

SpecPure == InitPure /\ [][NextPure]_vars

(***************************************************************************)
(* Properties.                                                             *)
(***************************************************************************)

\* C1: never-overwrite.  While a run goes on, every key of the store stays and
\* keeps its record; a run that loads a catalog file starts with every member
\* of the file under its key; and a catalog file that is written holds
\* exactly the store.
C1_NeverOverwrite ==
    [][/\ (pc \in Running /\ pc' \in Running \cup {"done"})
            => \A k \in DOMAIN products :
                   k \in DOMAIN products' /\ products'[k] = products[k]
       /\ (pc \notin Running /\ pc' \in Running /\ files[GucciPath].kind = "json")
            => \A m \in files[GucciPath].doc :
                   m[1] \in DOMAIN products' /\ products'[m[1]] = m[2]
       /\ \A p \in Paths :
            (files'[p].kind = "json" /\ pc' = "done" /\ pc = "write" /\ p = SavePath)
                => files'[p].doc = Dump(products)
      ]_vars

\* a page was processed that held an item whose code was stored under other fields
C1_Witness ==
    /\ pc \in {"walk", "walked"}
    /\ walkLog # <<>>
    /\ LastOf(walkLog).met
    /\ runs = 2

\* C2 as stated: a second crawl run, as a fresh process with the configuration
\* of a completed first one and against the same deterministic API, ends with
\* the store the first ended with and has added nothing.
C2_Original ==
    (pc = "done" /\ prev.ok /\ prev.cfg = cfg)
        => /\ products = prev.products
           /\ Cardinality(DOMAIN products) - initial_count = 0

\* C2 amended: the same, for runs that save to the catalog path they load
\* (no save path, or the catalog path given as save path).
C2_Idempotent ==
    (pc = "done" /\ prev.ok /\ prev.cfg = cfg /\ SavePath = GucciPath)
        => /\ products = prev.products
           /\ Cardinality(DOMAIN products) - initial_count = 0

C2_Witness ==
    /\ pc = "done" /\ prev.ok /\ prev.cfg = cfg
    /\ cfg.save_path = NoPath
    /\ runs = 2
    /\ DOMAIN products = {"p1", "p2"}

\* C3: a walker whose listing answers all carry items and all report the same
\* numberOfPages = N >= 1 fetches pages 0, 1, ... in that order, is still in
\* its loop with fewer than N fetches made, and has returned with exactly N.
Steady(N) == \A i \in 1..Len(walkLog) : walkLog[i].got = "items" /\ walkLog[i].n = N

C3_FetchCount ==
    /\ \A i \in 1..Len(walkLog) : walkLog[i].page = i - 1
    /\ \A N \in 1..(MaxPages + 1) :
         Steady(N) => /\ Len(walkLog) <= N
                      /\ pc = "walk" => Len(walkLog) < N
                      /\ pc = "walked" => Len(walkLog) = N

C3_Witness ==
    /\ pc = "walked"
    /\ Len(walkLog) = 2
    /\ Steady(2)

\* C4: a listing answer with an empty item list is the last fetch of its
\* walker, which has returned, and the step that received it left the store
\* as it was.
C4_EmptyPageHalts ==
    /\ [](\A i \in 1..Len(walkLog) :
            walkLog[i].got = "empty" => (i = Len(walkLog) /\ pc = "walked"))
    /\ [][(walkLog' # walkLog /\ walkLog' # <<>> /\ LastOf(walkLog').got = "empty")
            => products' = products]_vars

C4_Witness ==
    /\ pc = "walked"
    /\ walkLog # <<>>
    /\ LastOf(walkLog).got = "empty"
    /\ number_of_pages > LastOf(walkLog).page + 1
    /\ products # NoProducts

\* C5: an absent listing answer is the last fetch of its walker, which has
\* returned without an error and with the store as it was; from a returned
\* walker the run goes on to the next pair or, after the last, to the save;
\* and a crawl run that ends has written its store to the catalog file.
C5_AbsentIsEndOfStream ==
    /\ [](\A i \in 1..Len(walkLog) :
            walkLog[i].got = "absent" => (i = Len(walkLog) /\ pc = "walked"))
    /\ [][(walkLog' # walkLog /\ walkLog' # <<>> /\ LastOf(walkLog').got = "absent")
            => products' = products]_vars
    /\ [][(pc = "walked" /\ pc' # "killed")
            => /\ products' = products
               /\ IF ci < Len(Categories) THEN pc' = "walk" /\ ci' = ci + 1 /\ li' = li
                  ELSE IF li < Len(LangCodes) THEN pc' = "walk" /\ ci' = 1 /\ li' = li + 1
                  ELSE pc' = "save"]_vars
    /\ []((pc = "done" /\ ~cfg.download_images) => files[SavePath] = JsonFile(products))

\* page 1 of the first pair came back absent after page 0 had added products
C5_Witness ==
    /\ pc = "walked"
    /\ Len(walkLog) = 2
    /\ walkLog[1].got = "items"
    /\ walkLog[2].got = "absent"
    /\ filesAtStart[GucciPath] = Absent
    /\ products # NoProducts
    /\ ci < Len(Categories)

\* C6 as stated: get never raises into its caller, and returns the parsed
\* value exactly when the status is successful and the body is an object or
\* an array.
C6_GetNeverRaises ==
    /\ lastGet.tag # "raise"
    /\ lastGet.tag \in {"dict", "list"}
         <=> (lastGet.sent /\ lastGet.ok /\ lastGet.json \in {"object", "array"})

\* C7: a run in which writing the catalog failed has ended in the error state
\* and has not reported the saved and added counts.
C7_FatalOnSaveFailure == saveFailed => (pc = "error" /\ ~reported)

C7_Witness == saveFailed /\ pc = "error" /\ files[SavePath] = Partial

\* C8 as stated: the catalog files are as the run found them until all
\* walkers have finished, and a run that was terminated has left every
\* catalog that was persisted before it as it found it.
C8_SinglePersistencePoint ==
    /\ pc \in {"walk", "walked", "save"} => files = filesAtStart
    /\ pc = "killed"
         => \A p \in Paths : filesAtStart[p].kind = "json" => files[p] = filesAtStart[p]

\* C9: a download(url, path) call on a path that exists issues no request and
\* leaves the image files as they are.
C9_ExistingFileSkipped ==
    [][(pc = "downloading" /\ ImagePath(products, cur, idx) \in DOMAIN disk)
          => (img_requests' = img_requests /\ disk' = disk)]_vars

C9_Witness ==
    /\ dl.called
    /\ dl.existed
    /\ <<dl.dir, dl.name>> \in DOMAIN disk
    /\ img_requests = 0

\* C10 as stated: after a download(url, path) call that found the path absent
\* and whose request failed, the path is absent.
C10_FailedDownloadLeavesNoFile ==
    (dl.called /\ ~dl.existed /\ dl.failed) => <<dl.dir, dl.name>> \notin DOMAIN disk

Configured == {Categories[i] : i \in 1..Len(Categories)}

C15_CategoryAllowList ==
    [][(pc = "walk" /\ CategoryCode \notin Configured)
          => /\ products' = products
             /\ walkLog' = walkLog
             /\ lastGet' = lastGet
             /\ api' = api
             /\ files' = files
             /\ pc' = "walked"]_vars

\* the call for "kids" has returned, after earlier calls of the run stored products
C15_Witness ==
    /\ pc = "walked"
    /\ CategoryCode = "kids"
    /\ walkLog = <<>>
    /\ initial_count = 0
    /\ products # NoProducts

\* C16: an image-download invocation makes no get() call, keeps the store it
\* loaded and writes no catalog file; a crawl invocation requests no image,
\* writes no image file and creates no product directory.
C16_ModesExclusive ==
    [][/\ (pc \in Running /\ cfg.download_images)
            => /\ lastGet' = lastGet /\ walkLog' = walkLog /\ api' = api
               /\ files' = files
               /\ pc' \in Running \cup {"done"} => products' = products
       /\ (pc \in Running /\ ~cfg.download_images)
            => /\ disk' = disk /\ dirs' = dirs
               /\ img_requests' = img_requests /\ dl' = dl
      ]_vars

\* an image-download invocation has ended after requesting an image
C16_Witness ==
    /\ pc = "done"
    /\ cfg.download_images
    /\ img_requests > 0
    /\ products # NoProducts
    /\ files = filesAtStart

\* C19 as stated: the images of a stored record have distinct file names, and
\* a product whose directory holds exactly one complete file per listed image
\* (what a pass from an empty directory leaves when every request succeeds)
\* is skipped at the count check of the pass that follows a completed one: its
\* download loop is not entered.
ImageNames(k) ==
    {ImagePath(products, k, i) : i \in 1..Len(products[k]["images"])}

Complete(k) ==
    /\ {f \in DOMAIN disk : f[1] = products[k]["productCode"]} = ImageNames(k)
    /\ \A f \in ImageNames(k) : disk[f] = "full"

C19_Converges ==
    /\ [](\A k \in DOMAIN products :
              Cardinality(ImageNames(k)) = Len(products[k]["images"]))
    /\ [][(pc = "images" /\ pc' = "downloading" /\ prev.ok) => ~Complete(cur')]_vars

\* C12: the list deduplicate_images returns holds only URLs of its input, no
\* two of them with the same derived filename, and for every input URL
\* exactly one with that URL's derived filename; the derived filename of a
\* URL is its last path segment, cut before its first "-" and ended with
\* ".jpg" when it holds a "-".
LastSegment(u) ==
    LET slashes == {i \in 1..Len(u) : u[i] = "/"}
        start == IF slashes = {} THEN 1
                 ELSE (CHOOSE i \in slashes : \A j \in slashes : j <= i) + 1
    IN  SubSeq(u, start, Len(u))

DerivedFilename(u) ==
    LET seg == LastSegment(u)
        dashes == {i \in 1..Len(seg) : seg[i] = "-"}
    IN  IF dashes = {} THEN seg
        ELSE SubSeq(seg, 1, (CHOOSE i \in dashes : \A j \in dashes : i <= j) - 1)
             \o <<".jpg">>

C12_DedupLaw ==
    (call.fn = "deduplicate_images" /\ out.done)
        => LET inp == call.arg
               res == out.value
           IN  /\ \A j \in 1..Len(res) : \E i \in 1..Len(inp) : inp[i] = res[j]
               /\ \A j, k \in 1..Len(res) :
                      j # k => DerivedFilename(res[j]) # DerivedFilename(res[k])
               /\ \A i \in 1..Len(inp) :
                      Cardinality({j \in 1..Len(res) :
                          DerivedFilename(res[j]) = DerivedFilename(inp[i])}) = 1

\* A-1.jpg, A-2.jpg and a third URL went in, two URLs came out
C12_Witness ==
    /\ call.fn = "deduplicate_images"
    /\ out.done
    /\ Len(call.arg) = 3
    /\ \E i, j \in 1..3 : call.arg[i] = process_url(UrlA1) /\ call.arg[j] = process_url(UrlA2)
    /\ Len(out.value) = 2

\* C13 as stated: process_url returns its input with the fifth "/"-separated
\* segment replaced by the style constant, every other segment as it was, and
\* "https:" put in front exactly when the input starts with "//".
RECURSIVE JoinFrom(_, _)
JoinFrom(segs, i) ==
    IF i > Len(segs) THEN <<>>
    ELSE (IF i = 1 THEN <<>> ELSE <<"/">>) \o segs[i] \o JoinFrom(segs, i + 1)

Rewritten(u) ==
    LET segs == split(u, "/")
        styled == [i \in 1..Len(segs) |-> IF i = 5 THEN image_style ELSE segs[i]]
    IN  (IF Len(u) >= 2 /\ u[1] = "/" /\ u[2] = "/" THEN <<"https:">> ELSE <<>>)
        \o JoinFrom(styled, 1)

C13_StyleRewrite ==
    (call.fn = "process_url" /\ out.done /\ ~out.raised)
        => out.value = Rewritten(call.arg)

\* C14 as stated: for a detail response whose top level has a value under a
\* source name, and whose one translation entry in the target language has a
\* value B under that name, the mapping returned has B under the new name.
Renames ==
    {<<"editorialDescription", "editorial">>, <<"variationDescription", "variation">>,
     <<"departmentDescription", "department">>,
     <<"subDepartmentDescription", "subDepartment">>,
     <<"seasonDescription", "season">>, <<"detailParts", "details">>}

IsDocument(o) == o.sent /\ o.ok /\ o.json = "object"

TranslationsOf(b) == IF "translations" \in Keys(b) THEN Lookup(b, "translations") ELSE <<>>

InTargetLanguage(b) ==
    {i \in 1..Len(TranslationsOf(b)) :
        /\ "language" \in Keys(TranslationsOf(b)[i])
        /\ Lookup(TranslationsOf(b)[i], "language") = language}

TheTranslation(b) == TranslationsOf(b)[CHOOSE i \in InTargetLanguage(b) : TRUE]

MergeCase(b, r) ==
    /\ r[1] \in Keys(b)
    /\ Cardinality(InTargetLanguage(b)) = 1
    /\ r[1] \in Keys(TheTranslation(b))

NoNewName(b, r) == r[2] \notin Keys(b) /\ r[2] \notin Keys(TheTranslation(b))

C14_MergePrecedence ==
    (call.fn = "get_product_details" /\ out.done /\ ~out.raised /\ IsDocument(call.arg))
        => \A r \in Renames :
               MergeCase(call.arg.value, r)
                   => /\ r[2] \in DOMAIN out.value
                      /\ out.value[r[2]] = Lookup(TheTranslation(call.arg.value), r[1])

\* C14 amended: the same, when neither the top level nor that translation
\* entry has a field already named by the new name.
C14_MergePrecedenceNoClash ==
    (call.fn = "get_product_details" /\ out.done /\ ~out.raised /\ IsDocument(call.arg))
        => \A r \in Renames :
               (MergeCase(call.arg.value, r) /\ NoNewName(call.arg.value, r))
                   => /\ r[2] \in DOMAIN out.value
                      /\ out.value[r[2]] = Lookup(TheTranslation(call.arg.value), r[1])

\* top level "A", the translation in the target language "B": "editorial" is "B"
C14_Witness ==
    /\ call.fn = "get_product_details" /\ out.done /\ ~out.raised /\ IsDocument(call.arg)
    /\ MergeCase(call.arg.value, <<"editorialDescription", "editorial">>)
    /\ NoNewName(call.arg.value, <<"editorialDescription", "editorial">>)
    /\ Lookup(call.arg.value, "editorialDescription") = "A"
    /\ out.value["editorial"] = "B"

\* C17: the mapping get_product_details returns has none of the fifteen
\* dropped keys and none of the six old names; it is empty when the detail
\* fetch returned absent, and the record then stored is the normalized
\* listing record.
DroppedKeys ==
    {"assortments", "availability", "categories", "status", "variants", "project",
     "prices", "lastUpdated", "exotic", "genders", "materialCare", "styleCode",
     "language", "madeIn", "translations"}

OldNames == {r[1] : r \in Renames}

C17_EnricherKeys ==
    /\ (call.fn = "get_product_details" /\ out.done /\ ~out.raised)
          => /\ DOMAIN out.value \cap (DroppedKeys \cup OldNames) = {}
             /\ get(call.arg) = None => out.value = EmptyDict
    /\ (call.fn = "insert" /\ out.done /\ ~out.raised /\ call.arg.details
            /\ get(call.arg.detail) = None)
          => /\ DOMAIN out.value = {call.arg.item["productCode"]}
             /\ \E imgs \in process_images(call.arg.item) :
                    out.value[call.arg.item["productCode"]]
                        = Normalized(call.arg.item, imgs)

\* a response with a dropped key and an old name came back without them
C17_Witness ==
    /\ call.fn = "get_product_details" /\ out.done /\ ~out.raised /\ IsDocument(call.arg)
    /\ {"status", "editorialDescription", "translations"} \subseteq Keys(call.arg.value)
    /\ DOMAIN out.value = {"editorial"}

\* C18 as stated: a record the item loop stores has its key as productCode,
\* the images process_images made for the item, and none of the listing keys
\* the loop deletes.
C18_StoredRecord ==
    (call.fn = "insert" /\ out.done /\ ~out.raised)
        => \A k \in DOMAIN out.value :
               /\ out.value[k]["productCode"] = k
               /\ out.value[k]["images"] \in process_images(call.arg.item)
               /\ DOMAIN out.value[k] \cap listing_drop_keys = {}

====
